---- MODULE Spec2Model ----
(***************************************************************************)
(* Model of script/calculate_overlap_with_subROIs.py: the lesion / sub-ROI *)
(* overlap quantifier.  One run of the script is a sequence of steps       *)
(* (argument check, map enumeration, lesion load, binarization, one load   *)
(* and one scoring step per reference map, table write).                   *)
(*                                                                         *)
(* Strings are sequences of Unicode code points, so that sorted(), split() *)
(* and the '*gz' pattern are computed the way Python computes them.        *)
(* A volume is a record [shape, data]: shape is the 3-axis numpy shape and *)
(* data the voxel values in C (row-major) order.  Voxel values are         *)
(* integers; a score is kept in tenths (score * 10), which makes the       *)
(* interpolated 90th percentile an exact integer.  Floating-point rounding *)
(* and NaN voxels are outside the model.                                   *)
(***************************************************************************)
EXTENDS Integers, Sequences, FiniteSets, TLC

\* ------------------------------------------------------------------ bounds
\* longest first axis of a volume (the other two axes have length 1)
MaxDim == 3
\* most entries in the map directory
MaxFiles == 2

\* ----------------------------------------------------------------- strings
\* '/home/alberto/test_subalpamaps/APSS_Atlas/apss_subcortical_maps'
path_to_maps ==
    <<47, 104, 111, 109, 101, 47, 97, 108, 98, 101, 114, 116, 111, 47, 116,
      101, 115, 116, 95, 115, 117, 98, 97, 108, 112, 97, 109, 97, 112, 115,
      47, 65, 80, 83, 83, 95, 65, 116, 108, 97, 115, 47, 97, 112, 115, 115,
      95, 115, 117, 98, 99, 111, 114, 116, 105, 99, 97, 108, 95, 109, 97,
      112, 115>>

\* '_union_randomise_1mm.nii.gz'
SUFFIX ==
    <<95, 117, 110, 105, 111, 110, 95, 114, 97, 110, 100, 111, 109, 105, 115,
      101, 95, 49, 109, 109, 46, 110, 105, 105, 46, 103, 122>>

\* '/'
SLASH == <<47>>

\* 'gz', the literal part of the pattern '*gz'
GZ == <<103, 122>>

\* '.', a leading dot hides a directory entry from '*'
DOT == <<46>>

\* The directory entries the model draws the map directory from:
\* 'A_union_randomise_1mm.nii.gz', 'B_union_randomise_1mm.nii.gz',
\* 'A_union_randomise_1mm.nii.gz.gz' (the suffix is not at the end) and
\* 'notes.txt' (does not match '*gz').
FileNames ==
    { <<65>> \o SUFFIX,
      <<66>> \o SUFFIX,
      <<65>> \o SUFFIX \o <<46, 103, 122>>,
      <<110, 111, 116, 101, 115, 46, 116, 120, 116>> }

\* s[a..b] as a sequence; empty when a > b
Slice(s, a, b) == IF a > b THEN <<>> ELSE SubSeq(s, a, b)

\* does t occur in s starting at position i ?
OccursAt(s, t, i) ==
    /\ i >= 1
    /\ i + Len(t) - 1 <= Len(s)
    /\ Slice(s, i, i + Len(t) - 1) = t

EndsWith(s, t) == Len(s) >= Len(t) /\ OccursAt(s, t, Len(s) - Len(t) + 1)

StartsWith(s, t) == OccursAt(s, t, 1)

\* positions where t occurs in s
Occurrences(s, t) == {i \in 1..Len(s) : OccursAt(s, t, i)}

SetMin(S) == CHOOSE x \in S : \A y \in S : x <= y

SetMax(S) == CHOOSE x \in S : \A y \in S : y <= x

\* Python: s.split(t)[0], the part of s before the first occurrence of t
SplitFirst(s, t) ==
    IF Occurrences(s, t) = {} THEN s
    ELSE Slice(s, 1, SetMin(Occurrences(s, t)) - 1)

\* Python: s.split(t)[-1], the part of s after the last occurrence of t
SplitLast(s, t) ==
    IF Occurrences(s, t) = {} THEN s
    ELSE Slice(s, SetMax(Occurrences(s, t)) + Len(t), Len(s))

\* Python: a < b on str (code point order, a proper prefix is smaller)
StrLess(a, b) ==
    \E k \in 1..(Len(b)) :
        /\ k <= Len(a) + 1
        /\ Slice(a, 1, k - 1) = Slice(b, 1, k - 1)
        /\ (k = Len(a) + 1 \/ a[k] < b[k])

\* os.path.join(path_to_maps, name)
JoinPath(name) == path_to_maps \o SLASH \o name

\* fnmatch of one directory entry against '*gz' as glob applies it
GlobMatch(name) == EndsWith(name, GZ) /\ ~StartsWith(name, DOT)

\* the set of paths glob.glob(os.path.join(path_to_maps, '*gz')) returns
GlobSet(listing) == {JoinPath(n) : n \in {m \in listing : GlobMatch(m)}}

\* every order in which a finite set can be enumerated
Enumerations(S) ==
    {q \in [1..Cardinality(S) -> S] : \A x \in S : \E i \in DOMAIN q : q[i] = x}

RECURSIVE InsertPath(_, _)
\* path x put into the ascending sequence s
InsertPath(x, s) ==
    IF s = <<>> THEN <<x>>
    ELSE IF StrLess(x, Head(s)) THEN <<x>> \o s
    ELSE <<Head(s)>> \o InsertPath(x, Tail(s))

RECURSIVE SortPaths(_)
\* Python: sorted(s) on a list of str
SortPaths(s) ==
    IF s = <<>> THEN <<>>
    ELSE InsertPath(s[Len(s)], SortPaths(Slice(s, 1, Len(s) - 1)))

\* a glob result that is returned unsorted (a variant of SortedPaths)
UnsortedPaths(q) == q

\* sorted(glob.glob(...))
SortedPaths(q) == SortPaths(q)

\* a variant of DisplayName that keeps the first path component
DisplayNameFirstComponent(p) == SplitFirst(SplitFirst(p, SUFFIX), SLASH)

\* ii.split('_union_randomise_1mm.nii.gz')[0].split('/')[-1]
DisplayName(p) == SplitLast(SplitFirst(p, SUFFIX), SLASH)

\* ----------------------------------------------------------------- volumes
Shapes == {<<n, 1, 1>> : n \in 1..MaxDim}

Size(shape) == shape[1] * shape[2] * shape[3]

\* voxel values a lesion file may hold
LesionVals == {-1, 0, 2}

\* voxel values a reference map file may hold
MapVals == {0, 1, 2}

VolumesOver(vals) ==
    UNION {{[shape |-> sh, data |-> d] : d \in [1..Size(sh) -> vals]} : sh \in Shapes}

\* the value of a name that is not bound yet
NoVolume == [shape |-> <<>>, data |-> <<>>]

\* a variant of Binarize that only sets the positive voxels
BinarizePositive(v) ==
    [v EXCEPT !.data = [i \in DOMAIN v.data |-> IF v.data[i] > 0 THEN 1 ELSE v.data[i]]]

\* a variant of Binarize that leaves the volume as loaded
NoBinarize(v) == v

\* pat_data[pat_data != 0] = 1
Binarize(v) ==
    [v EXCEPT !.data = [i \in DOMAIN v.data |-> IF v.data[i] # 0 THEN 1 ELSE v.data[i]]]

\* numpy broadcasting of two 3-axis shapes: per axis equal, or one of them 1
Broadcastable(s1, s2) ==
    \A ax \in 1..3 :
        IF s1[ax] = s2[ax] THEN TRUE
        ELSE IF s1[ax] = 1 THEN TRUE
        ELSE s2[ax] = 1

Max2(a, b) == IF a >= b THEN a ELSE b

BroadcastShape(s1, s2) == [ax \in 1..3 |-> Max2(s1[ax], s2[ax])]

\* the value volume v contributes at flat position f of an array of shape sh
BroadcastAt(v, sh, f) ==
    LET z == f - 1
        i == z \div (sh[2] * sh[3])
        j == (z \div sh[3]) % sh[2]
        k == z % sh[3]
        vi == IF v.shape[1] = 1 THEN 0 ELSE i
        vj == IF v.shape[2] = 1 THEN 0 ELSE j
        vk == IF v.shape[3] = 1 THEN 0 ELSE k
    IN  v.data[vi * v.shape[2] * v.shape[3] + vj * v.shape[3] + vk + 1]

\* nifti_data * pat_data
Product(a, b) ==
    LET sh == BroadcastShape(a.shape, b.shape)
    IN  [shape |-> sh,
         data  |-> [f \in 1..Size(sh) |-> BroadcastAt(a, sh, f) * BroadcastAt(b, sh, f)]]

RECURSIVE SelectNonZero(_)
\* inter[inter != 0]: the non-zero values, in C order
SelectNonZero(d) ==
    IF d = <<>> THEN <<>>
    ELSE IF Head(d) # 0 THEN <<Head(d)>> \o SelectNonZero(Tail(d))
    ELSE SelectNonZero(Tail(d))

RECURSIVE InsertValue(_, _)
\* value x put into the ascending sequence s
InsertValue(x, s) ==
    IF s = <<>> THEN <<x>>
    ELSE IF x < Head(s) THEN <<x>> \o s
    ELSE <<Head(s)>> \o InsertValue(x, Tail(s))

RECURSIVE SortValues(_)
\* the sample in ascending order, as np.percentile orders it
SortValues(s) ==
    IF s = <<>> THEN <<>>
    ELSE InsertValue(s[Len(s)], SortValues(Slice(s, 1, Len(s) - 1)))

\* a variant of Percentile90x10: the nearest lower rank, no interpolation
Percentile90x10Lower(sample) ==
    LET s == SortValues(sample)
        n == Len(s)
    IN  10 * s[((9 * (n - 1)) \div 10) + 1]

\* np.percentile(sample, 90) times 10, for a non-empty sample: the virtual
\* index is 0.9 * (n - 1); the result is s[lo] + gamma * (s[hi] - s[lo])
Percentile90x10(sample) ==
    LET s  == SortValues(sample)
        n  == Len(s)
        h  == 9 * (n - 1)
        lo == h \div 10
        r  == h % 10
        hi == IF lo + 1 > n - 1 THEN n - 1 ELSE lo + 1
    IN  10 * s[lo + 1] + r * (s[hi + 1] - s[lo + 1])

\* a variant of OverlapScore that takes the percentile of the map's own values
OverlapScoreOfMap(nifti, pat) ==
    LET non_zero == SelectNonZero(nifti.data)
    IN  IF Len(non_zero) > 0 THEN Percentile90x10(non_zero) ELSE 0

\* the value stored in df_as_array[0, nifti_index] for one map
OverlapScore(nifti, pat) ==
    LET non_zero_inter == SelectNonZero(Product(nifti, pat).data)
    IN  IF Len(non_zero_inter) > 0 THEN Percentile90x10(non_zero_inter) ELSE 0

\* ------------------------------------------------------------------- state
VARIABLES
    pc,             \* position of the run
    lesion_exists,  \* os.path.exists(args.lesions_path)
    listing,        \* the entries of the map directory
    maps,           \* sorted paths of the reference maps
    map_names,      \* column names
    df_as_array,    \* the 1 x len(maps) array of scores (in tenths)
    pat_data,       \* the lesion volume
    nifti_index,    \* number of maps the loop has taken up so far
    nifti_map,      \* path of the map being processed
    nifti_data,     \* volume of the map being processed
    inter,          \* product of the map and the lesion mask
    output,         \* the table on disk, <<>> while there is none
    n_writes,       \* number of times the output file was written
    error           \* the exception that ended the run, <<>> if none

\* the state of script/radar_plot.py
VARIABLES
    rp_pc,          \* position of the radar-plot run
    gm_exists,      \* os.path.exists(gm_file)
    wm_exists,      \* os.path.exists(wm_file)
    gm_csv,         \* content of the gray-matter CSV file
    wm_csv,         \* content of the white-matter CSV file
    csv_reads,      \* number of pd.read_csv calls made
    gm_data,        \* dictionary clean name -> value (in thousandths)
    wm_data,        \* dictionary clean name -> value (in thousandths)
    saved,          \* the figures saved so far, in order
    example_calls,  \* number of run_example calls
    rp_error        \* the exception raised, <<>> if none

overlap_vars == <<pc, lesion_exists, listing, maps, map_names, df_as_array, pat_data,
                  nifti_index, nifti_map, nifti_data, inter, output, n_writes, error>>

radar_vars == <<rp_pc, gm_exists, wm_exists, gm_csv, wm_csv, csv_reads, gm_data,
                wm_data, saved, example_calls, rp_error>>

vars == <<overlap_vars, radar_vars>>

\* a CSV path that holds no file
NoCsv == [parses |-> FALSE, columns |-> <<>>, rows |-> <<>>]

\* radar_plot.py is not run
RadarNotRun ==
    /\ rp_pc = "start"
    /\ gm_exists = FALSE
    /\ wm_exists = FALSE
    /\ gm_csv = NoCsv
    /\ wm_csv = NoCsv
    /\ csv_reads = 0
    /\ gm_data = <<>>
    /\ wm_data = <<>>
    /\ saved = <<>>
    /\ example_calls = 0
    /\ rp_error = <<>>

DirListings == {S \in SUBSET FileNames : Cardinality(S) <= MaxFiles}

Init ==
    /\ pc = "start"
    /\ lesion_exists \in BOOLEAN
    /\ listing \in DirListings
    /\ maps = <<>>
    /\ map_names = <<>>
    /\ df_as_array = <<>>
    /\ pat_data = NoVolume
    /\ nifti_index = 0
    /\ nifti_map = <<>>
    /\ nifti_data = NoVolume
    /\ inter = NoVolume
    /\ output = <<>>
    /\ n_writes = 0
    /\ error = <<>>
    /\ RadarNotRun

\* ----------------------------------------------------------------- actions
\* the run ends with an exception
Raise(e) ==
    /\ pc' = "failed"
    /\ error' = <<e>>

\* __main__: the lesion path does not exist
LesionMissing ==
    /\ pc = "start"
    /\ ~lesion_exists
    /\ Raise("FileNotFoundError")
    /\ UNCHANGED <<radar_vars, lesion_exists, listing, maps, map_names, df_as_array, pat_data,
                   nifti_index, nifti_map, nifti_data, inter, output, n_writes>>

\* a variant of EnterMain without the existence check
EnterMainUnchecked ==
    /\ pc = "start"
    /\ pc' = "enumerate"
    /\ UNCHANGED <<radar_vars, lesion_exists, listing, maps, map_names, df_as_array, pat_data,
                   nifti_index, nifti_map, nifti_data, inter, output, n_writes, error>>

\* __main__: the lesion path exists, main() is called
EnterMain ==
    /\ pc = "start"
    /\ lesion_exists
    /\ pc' = "enumerate"
    /\ UNCHANGED <<radar_vars, lesion_exists, listing, maps, map_names, df_as_array, pat_data,
                   nifti_index, nifti_map, nifti_data, inter, output, n_writes, error>>

\* main(): glob in any enumeration order, sort, derive the column names,
\* allocate the zero score array
Enumerate ==
    /\ pc = "enumerate"
    /\ \E q \in Enumerations(GlobSet(listing)) :
          /\ maps' = SortedPaths(q)
          /\ map_names' = [i \in 1..Len(q) |-> DisplayName(SortedPaths(q)[i])]
          /\ df_as_array' = <<[i \in 1..Len(q) |-> 0]>>
    /\ pc' = "load_lesion"
    /\ UNCHANGED <<radar_vars, lesion_exists, listing, pat_data, nifti_index, nifti_map,
                   nifti_data, inter, output, n_writes, error>>

\* nib.load(lesion).get_fdata()
LoadLesion ==
    /\ pc = "load_lesion"
    /\ lesion_exists
    /\ \E v \in VolumesOver(LesionVals) : pat_data' = v
    /\ pc' = "binarize"
    /\ UNCHANGED <<radar_vars, lesion_exists, listing, maps, map_names, df_as_array,
                   nifti_index, nifti_map, nifti_data, inter, output, n_writes, error>>

\* nib.load(lesion) raises: the file is missing or is no volume
LoadLesionFail ==
    /\ pc = "load_lesion"
    /\ Raise(IF lesion_exists THEN "ImageFileError" ELSE "FileNotFoundError")
    /\ UNCHANGED <<radar_vars, lesion_exists, listing, maps, map_names, df_as_array, pat_data,
                   nifti_index, nifti_map, nifti_data, inter, output, n_writes>>

\* pat_data[pat_data != 0] = 1
BinarizeLesion ==
    /\ pc = "binarize"
    /\ pat_data' = Binarize(pat_data)
    /\ pc' = "loop"
    /\ UNCHANGED <<radar_vars, lesion_exists, listing, maps, map_names, df_as_array,
                   nifti_index, nifti_map, nifti_data, inter, output, n_writes, error>>

\* for nifti_index, nifti_map in enumerate(maps): nib.load(nifti_map).get_fdata()
LoadMap ==
    /\ pc = "loop"
    /\ nifti_index < Len(maps)
    /\ nifti_map' = maps[nifti_index + 1]
    /\ \E v \in VolumesOver(MapVals) : nifti_data' = v
    /\ pc' = "score"
    /\ UNCHANGED <<radar_vars, lesion_exists, listing, maps, map_names, df_as_array, pat_data,
                   nifti_index, inter, output, n_writes, error>>

\* a variant of LoadMapFail that skips the unreadable map and goes on
LoadMapFailSkip ==
    /\ pc = "loop"
    /\ nifti_index < Len(maps)
    /\ nifti_map' = maps[nifti_index + 1]
    /\ nifti_index' = nifti_index + 1
    /\ error' = <<"ImageFileError">>
    /\ UNCHANGED <<radar_vars, pc, lesion_exists, listing, maps, map_names, df_as_array, pat_data,
                   nifti_data, inter, output, n_writes>>

\* nib.load(nifti_map) raises
LoadMapFail ==
    /\ pc = "loop"
    /\ nifti_index < Len(maps)
    /\ nifti_map' = maps[nifti_index + 1]
    /\ Raise("ImageFileError")
    /\ UNCHANGED <<radar_vars, lesion_exists, listing, maps, map_names, df_as_array, pat_data,
                   nifti_index, nifti_data, inter, output, n_writes>>

\* nifti_data * pat_data raises: the shapes cannot be broadcast together
ShapeError ==
    /\ pc = "score"
    /\ ~Broadcastable(nifti_data.shape, pat_data.shape)
    /\ Raise("ValueError")
    /\ UNCHANGED <<radar_vars, lesion_exists, listing, maps, map_names, df_as_array, pat_data,
                   nifti_index, nifti_map, nifti_data, inter, output, n_writes>>

\* a variant of ScoreMap that multiplies the mask in place (pat_data *= nifti_data)
ScoreMapInPlace ==
    /\ pc = "score"
    /\ Broadcastable(nifti_data.shape, pat_data.shape)
    /\ inter' = Product(nifti_data, pat_data)
    /\ pat_data' = Product(nifti_data, pat_data)
    /\ df_as_array' = [df_as_array EXCEPT ![1][nifti_index + 1] =
                           OverlapScore(nifti_data, pat_data)]
    /\ nifti_index' = nifti_index + 1
    /\ pc' = "loop"
    /\ UNCHANGED <<radar_vars, lesion_exists, listing, maps, map_names, nifti_map, nifti_data,
                   output, n_writes, error>>

\* the rest of the loop body: product, non-zero values, percentile, store
ScoreMap ==
    /\ pc = "score"
    /\ Broadcastable(nifti_data.shape, pat_data.shape)
    /\ inter' = Product(nifti_data, pat_data)
    /\ df_as_array' = [df_as_array EXCEPT ![1][nifti_index + 1] =
                           OverlapScore(nifti_data, pat_data)]
    /\ nifti_index' = nifti_index + 1
    /\ pc' = "loop"
    /\ UNCHANGED <<radar_vars, lesion_exists, listing, maps, map_names, pat_data, nifti_map,
                   nifti_data, output, n_writes, error>>

\* pd.DataFrame(df_as_array, index=pat_ids, columns=map_names).to_csv(output_path)
WriteOutput ==
    /\ pc = "loop"
    /\ nifti_index = Len(maps)
    /\ output' = <<[columns |-> map_names, rows |-> df_as_array]>>
    /\ n_writes' = n_writes + 1
    /\ pc' = "done"
    /\ UNCHANGED <<radar_vars, lesion_exists, listing, maps, map_names, df_as_array, pat_data,
                   nifti_index, nifti_map, nifti_data, inter, error>>

Next ==
    \/ LesionMissing
    \/ EnterMain
    \/ Enumerate
    \/ LoadLesion
    \/ LoadLesionFail
    \/ BinarizeLesion
    \/ LoadMap
    \/ LoadMapFail
    \/ ShapeError
    \/ ScoreMap
    \/ WriteOutput

Spec == Init /\ [][Next]_vars

\* ------------------------------------------------- radar_plot.py: strings
\* Python: s.lower() on ASCII text
Lower(s) == [i \in DOMAIN s |-> IF s[i] >= 65 /\ s[i] <= 90 THEN s[i] + 32 ELSE s[i]]

\* Python: s.upper() on ASCII text
Upper(s) == [i \in DOMAIN s |-> IF s[i] >= 97 /\ s[i] <= 122 THEN s[i] - 32 ELSE s[i]]

\* Python: t in s, for a non-empty t
Contains(s, t) == Occurrences(s, t) # {}

\* Python: s.isdigit() on ASCII text
IsDigit(s) == Len(s) > 0 /\ \A i \in DOMAIN s : s[i] >= 48 /\ s[i] <= 57

RECURSIVE ReplaceAll(_, _, _)
\* Python: s.replace(t, u), left to right, for a non-empty t
ReplaceAll(s, t, u) ==
    IF s = <<>> THEN <<>>
    ELSE IF OccursAt(s, t, 1) THEN u \o ReplaceAll(Slice(s, Len(t) + 1, Len(s)), t, u)
    ELSE <<Head(s)>> \o ReplaceAll(Tail(s), t, u)

\* ASCII white space, as str.split() sees it
IsSpace(c) == c = 32 \/ (c >= 9 /\ c <= 13)

RECURSIVE SplitWords(_, _)
\* Python: s.split(); word is the word being read
SplitWords(s, word) ==
    IF s = <<>> THEN (IF word = <<>> THEN <<>> ELSE <<word>>)
    ELSE IF IsSpace(Head(s))
         THEN (IF word = <<>> THEN <<>> ELSE <<word>>) \o SplitWords(Tail(s), <<>>)
    ELSE SplitWords(Tail(s), word \o <<Head(s)>>)

\* Python: word.capitalize()
Capitalize(w) ==
    IF w = <<>> THEN <<>> ELSE Upper(<<Head(w)>>) \o Lower(Tail(w))

RECURSIVE JoinCapitalized(_)
\* Python: ' '.join(word.capitalize() for word in words)
JoinCapitalized(words) ==
    IF words = <<>> THEN <<>>
    ELSE IF Len(words) = 1 THEN Capitalize(words[1])
    ELSE Capitalize(words[1]) \o <<32>> \o JoinCapitalized(Tail(words))

\* clean_column_names: the columns that are skipped.  'template', 'unnamed'
SkipColumn(col) ==
    IF col = <<>> THEN TRUE
    ELSE IF Contains(Lower(col), <<116, 101, 109, 112, 108, 97, 116, 101>>) THEN TRUE
    ELSE IF Contains(Lower(col), <<117, 110, 110, 97, 109, 101, 100>>) THEN TRUE
    ELSE IsDigit(col)

\* clean_column_names: col.replace('.nii.gz', '').replace('_', ' '), then
\* the words capitalized and joined by one space
CleanName(col) ==
    JoinCapitalized(
        SplitWords(
            ReplaceAll(ReplaceAll(col, <<46, 110, 105, 105, 46, 103, 122>>, <<>>),
                       <<95>>, <<32>>),
            <<>>))

\* ---------------------------------------------------- radar_plot.py: data
\* most data rows of a CSV file
MaxRows == 1

\* header rows of the CSV files the model draws from:
\* 'Unnamed: 0', 'Semantic.nii.gz'   and   'motor_area', 'SEMANTIC'
CsvHeaders ==
    { <<<<85, 110, 110, 97, 109, 101, 100, 58, 32, 48>>,
        <<83, 101, 109, 97, 110, 116, 105, 99, 46, 110, 105, 105, 46, 103, 122>>>>,
      <<<<109, 111, 116, 111, 114, 95, 97, 114, 101, 97>>,
        <<83, 69, 77, 65, 78, 84, 73, 67>>>> }

\* a cell that float() converts (0.5, held in thousandths) and one it rejects
CsvCells == {[numeric |-> TRUE, value |-> 500], [numeric |-> FALSE, value |-> 0]}

\* the files read_csv parses: a header and up to MaxRows rows of cells
ParsedCsvs ==
    UNION {UNION {{[parses |-> TRUE, columns |-> h, rows |-> r] :
                      r \in [1..n -> [1..Len(h) -> CsvCells]]} :
                  n \in 0..MaxRows} :
           h \in CsvHeaders}

\* a file that exists and that read_csv rejects
BadCsv == [parses |-> FALSE, columns |-> <<>>, rows |-> <<>>]

\* what a CSV path may hold when it exists
CsvFiles == ParsedCsvs \cup {BadCsv}

\* the columns clean_column_names keeps, by position
KeptColumns(csv) == {i \in DOMAIN csv.columns : ~SkipColumn(csv.columns[i])}

\* float(df[orig_col].iloc[0]) raises IndexError: a kept column and no row
ProcessingRaises(csv) == KeptColumns(csv) # {} /\ Len(csv.rows) = 0

\* the kept columns whose first cell float() converts
ConvertedColumns(csv) == {i \in KeptColumns(csv) : csv.rows[1][i].numeric}

\* the dictionary the processing loop builds: a later column of the same clean
\* name overwrites an earlier one
DataOf(csv) ==
    [k \in {CleanName(csv.columns[i]) : i \in ConvertedColumns(csv)} |->
        csv.rows[1][SetMax({i \in ConvertedColumns(csv) : CleanName(csv.columns[i]) = k})].value]

\* create_sample_data: gm_sample, values in thousandths
gm_sample_items ==
    <<\* 'Semantic': 0.505
      <<<<83, 101, 109, 97, 110, 116, 105, 99>>, 505>>,
      \* 'Phonological': 0.706
      <<<<80, 104, 111, 110, 111, 108, 111, 103, 105, 99, 97, 108>>, 706>>,
      \* 'Speech Arrest': 0.931
      <<<<83, 112, 101, 101, 99, 104, 32, 65, 114, 114, 101, 115, 116>>, 931>>,
      \* 'Movement Arrest': 0.907
      <<<<77, 111, 118, 101, 109, 101, 110, 116, 32, 65, 114, 114, 101, 115, 116>>, 907>>,
      \* 'Motor': 0.933
      <<<<77, 111, 116, 111, 114>>, 933>>,
      \* 'Sensorial': 1.0
      <<<<83, 101, 110, 115, 111, 114, 105, 97, 108>>, 1000>>,
      \* 'Visual': 0.889
      <<<<86, 105, 115, 117, 97, 108>>, 889>>,
      \* 'Spatial Perception': 0.862
      <<<<83, 112, 97, 116, 105, 97, 108, 32, 80, 101, 114, 99, 101, 112, 116, 105, 111, 110>>, 862>>,
      \* 'Mentalizing': 0.559
      <<<<77, 101, 110, 116, 97, 108, 105, 122, 105, 110, 103>>, 559>>,
      \* 'Anomia': 0.482
      <<<<65, 110, 111, 109, 105, 97>>, 482>>,
      \* 'Amodal Anomia': 0.526
      <<<<65, 109, 111, 100, 97, 108, 32, 65, 110, 111, 109, 105, 97>>, 526>>,
      \* 'Verbal Apraxia': 0.907
      <<<<86, 101, 114, 98, 97, 108, 32, 65, 112, 114, 97, 120, 105, 97>>, 907>>>>

\* create_sample_data: wm_sample, values in thousandths
wm_sample_items ==
    <<\* 'Semantic': 0.3
      <<<<83, 101, 109, 97, 110, 116, 105, 99>>, 300>>,
      \* 'Phonological': 0.373
      <<<<80, 104, 111, 110, 111, 108, 111, 103, 105, 99, 97, 108>>, 373>>,
      \* 'Speech Arrest': 0.59
      <<<<83, 112, 101, 101, 99, 104, 32, 65, 114, 114, 101, 115, 116>>, 590>>,
      \* 'Movement Arrest': 0.71
      <<<<77, 111, 118, 101, 109, 101, 110, 116, 32, 65, 114, 114, 101, 115, 116>>, 710>>,
      \* 'Motor': 0.855
      <<<<77, 111, 116, 111, 114>>, 855>>,
      \* 'Sensorial': 0.947
      <<<<83, 101, 110, 115, 111, 114, 105, 97, 108>>, 947>>,
      \* 'Visual': 0.508
      <<<<86, 105, 115, 117, 97, 108>>, 508>>,
      \* 'Spatial Perception': 0.779
      <<<<83, 112, 97, 116, 105, 97, 108, 32, 80, 101, 114, 99, 101, 112, 116, 105, 111, 110>>, 779>>,
      \* 'Mentalizing': 0.448
      <<<<77, 101, 110, 116, 97, 108, 105, 122, 105, 110, 103>>, 448>>,
      \* 'Anomia': 0.193
      <<<<65, 110, 111, 109, 105, 97>>, 193>>,
      \* 'Amodal Anomia': 0.472
      <<<<65, 109, 111, 100, 97, 108, 32, 65, 110, 111, 109, 105, 97>>, 472>>,
      \* 'Verbal Apraxia': 0.697
      <<<<86, 101, 114, 98, 97, 108, 32, 65, 112, 114, 97, 120, 105, 97>>, 697>>>>

\* a list of (key, value) pairs with distinct keys as a dictionary
DictOf(items) ==
    [k \in {items[i][1] : i \in DOMAIN items} |->
        items[CHOOSE i \in DOMAIN items : items[i][1] = k][2]]

\* create_sample_data()
create_sample_data == [gm |-> DictOf(gm_sample_items), wm |-> DictOf(wm_sample_items)]

\* a figure file: its name in the output directory and the data drawn in it
Figure(name, gm, wm) == [name |-> name, gm |-> gm, wm |-> wm]

\* ------------------------------------------------- radar_plot.py: actions
\* calculate_overlap_with_subROIs.py is not run
OverlapNotRun ==
    /\ pc = "start"
    /\ lesion_exists = FALSE
    /\ listing = {}
    /\ maps = <<>>
    /\ map_names = <<>>
    /\ df_as_array = <<>>
    /\ pat_data = NoVolume
    /\ nifti_index = 0
    /\ nifti_map = <<>>
    /\ nifti_data = NoVolume
    /\ inter = NoVolume
    /\ output = <<>>
    /\ n_writes = 0
    /\ error = <<>>

\* the state radar_plot.py starts in: each CSV path holds a file or none
InitRadar ==
    /\ OverlapNotRun
    /\ rp_pc = "start"
    /\ gm_exists \in BOOLEAN
    /\ wm_exists \in BOOLEAN
    /\ gm_csv \in (IF gm_exists THEN CsvFiles ELSE {NoCsv})
    /\ wm_csv \in (IF wm_exists THEN CsvFiles ELSE {NoCsv})
    /\ csv_reads = 0
    /\ gm_data = <<>>
    /\ wm_data = <<>>
    /\ saved = <<>>
    /\ example_calls = 0
    /\ rp_error = <<>>

\* an exception leaves the try block
RaiseInTry(e) ==
    /\ rp_pc' = "except"
    /\ rp_error' = rp_error \o <<e>>

\* an exception leaves run_example, which no handler encloses
RaiseInExample(e) ==
    /\ rp_pc' = "crashed"
    /\ rp_error' = rp_error \o <<e>>

\* plt.savefig(path) of a figure drawn from gm and wm
SaveFigure(name, gm, wm) == saved' = Append(saved, Figure(name, gm, wm))

\* __main__ up to the try block: arguments, os.makedirs, prints
RadarStart ==
    /\ rp_pc = "start"
    /\ rp_pc' = "load"
    /\ UNCHANGED <<overlap_vars, gm_exists, wm_exists, gm_csv, wm_csv, csv_reads,
                   gm_data, wm_data, saved, example_calls, rp_error>>

\* load_and_process_data: a path does not exist
LoadMissing ==
    /\ rp_pc = "load"
    /\ (gm_exists /\ wm_exists) = FALSE
    /\ RaiseInTry("FileNotFoundError")
    /\ UNCHANGED <<overlap_vars, gm_exists, wm_exists, gm_csv, wm_csv, csv_reads,
                   gm_data, wm_data, saved, example_calls>>

\* load_and_process_data: both paths exist, pd.read_csv(gm_file)
ReadGmCsv ==
    /\ rp_pc = "load"
    /\ (gm_exists /\ wm_exists) = TRUE
    /\ gm_csv.parses
    /\ csv_reads' = csv_reads + 1
    /\ rp_pc' = "read_wm"
    /\ UNCHANGED <<overlap_vars, gm_exists, wm_exists, gm_csv, wm_csv,
                   gm_data, wm_data, saved, example_calls, rp_error>>

\* pd.read_csv(gm_file) raises
ReadGmCsvFail ==
    /\ rp_pc = "load"
    /\ (gm_exists /\ wm_exists) = TRUE
    /\ ~gm_csv.parses
    /\ csv_reads' = csv_reads + 1
    /\ RaiseInTry("ParserError")
    /\ UNCHANGED <<overlap_vars, gm_exists, wm_exists, gm_csv, wm_csv,
                   gm_data, wm_data, saved, example_calls>>

\* pd.read_csv(wm_file)
ReadWmCsv ==
    /\ rp_pc = "read_wm"
    /\ wm_csv.parses
    /\ csv_reads' = csv_reads + 1
    /\ rp_pc' = "process"
    /\ UNCHANGED <<overlap_vars, gm_exists, wm_exists, gm_csv, wm_csv,
                   gm_data, wm_data, saved, example_calls, rp_error>>

\* pd.read_csv(wm_file) raises
ReadWmCsvFail ==
    /\ rp_pc = "read_wm"
    /\ ~wm_csv.parses
    /\ csv_reads' = csv_reads + 1
    /\ RaiseInTry("ParserError")
    /\ UNCHANGED <<overlap_vars, gm_exists, wm_exists, gm_csv, wm_csv,
                   gm_data, wm_data, saved, example_calls>>

\* the two processing loops of load_and_process_data and its return
ProcessData ==
    /\ rp_pc = "process"
    /\ ~ProcessingRaises(gm_csv)
    /\ ~ProcessingRaises(wm_csv)
    /\ gm_data' = DataOf(gm_csv)
    /\ wm_data' = DataOf(wm_csv)
    /\ rp_pc' = "plot_comparison"
    /\ UNCHANGED <<overlap_vars, gm_exists, wm_exists, gm_csv, wm_csv, csv_reads,
                   saved, example_calls, rp_error>>

\* .iloc[0] raises IndexError in one of the processing loops
ProcessDataFail ==
    /\ rp_pc = "process"
    /\ (IF ProcessingRaises(gm_csv) THEN TRUE ELSE ProcessingRaises(wm_csv))
    /\ RaiseInTry("IndexError")
    /\ UNCHANGED <<overlap_vars, gm_exists, wm_exists, gm_csv, wm_csv, csv_reads,
                   gm_data, wm_data, saved, example_calls>>

\* create_comparison_radar_plot(gm_data, wm_data, 'radar_comparison.png')
PlotComparison ==
    /\ rp_pc = "plot_comparison"
    /\ SaveFigure("radar_comparison.png", gm_data, wm_data)
    /\ rp_pc' = "plot_gm"
    /\ UNCHANGED <<overlap_vars, gm_exists, wm_exists, gm_csv, wm_csv, csv_reads,
                   gm_data, wm_data, example_calls, rp_error>>

\* create_comparison_radar_plot raises (the figure cannot be saved)
PlotComparisonFail ==
    /\ rp_pc = "plot_comparison"
    /\ RaiseInTry("OSError")
    /\ UNCHANGED <<overlap_vars, gm_exists, wm_exists, gm_csv, wm_csv, csv_reads,
                   gm_data, wm_data, saved, example_calls>>

\* create_individual_plots: the GM figure, 'radar_plots_GM.png'
PlotGm ==
    /\ rp_pc = "plot_gm"
    /\ SaveFigure("radar_plots_GM.png", gm_data, <<>>)
    /\ rp_pc' = "plot_wm"
    /\ UNCHANGED <<overlap_vars, gm_exists, wm_exists, gm_csv, wm_csv, csv_reads,
                   gm_data, wm_data, example_calls, rp_error>>

\* create_individual_plots raises on the GM figure
PlotGmFail ==
    /\ rp_pc = "plot_gm"
    /\ RaiseInTry("OSError")
    /\ UNCHANGED <<overlap_vars, gm_exists, wm_exists, gm_csv, wm_csv, csv_reads,
                   gm_data, wm_data, saved, example_calls>>

\* create_individual_plots: the WM figure, 'radar_plots_WM.png', then the
\* closing prints of the try block
PlotWm ==
    /\ rp_pc = "plot_wm"
    /\ SaveFigure("radar_plots_WM.png", <<>>, wm_data)
    /\ rp_pc' = "done"
    /\ UNCHANGED <<overlap_vars, gm_exists, wm_exists, gm_csv, wm_csv, csv_reads,
                   gm_data, wm_data, example_calls, rp_error>>

\* create_individual_plots raises on the WM figure
PlotWmFail ==
    /\ rp_pc = "plot_wm"
    /\ RaiseInTry("OSError")
    /\ UNCHANGED <<overlap_vars, gm_exists, wm_exists, gm_csv, wm_csv, csv_reads,
                   gm_data, wm_data, saved, example_calls>>

\* a variant of HandleFileNotFound that reports the error and stops
HandleFileNotFoundNoFallback ==
    /\ rp_pc = "except"
    /\ rp_error[Len(rp_error)] = "FileNotFoundError"
    /\ rp_pc' = "done"
    /\ UNCHANGED <<overlap_vars, gm_exists, wm_exists, gm_csv, wm_csv, csv_reads,
                   gm_data, wm_data, saved, example_calls, rp_error>>

\* except FileNotFoundError: run_example(output_directory) is called
HandleFileNotFound ==
    /\ rp_pc = "except"
    /\ rp_error[Len(rp_error)] = "FileNotFoundError"
    /\ example_calls' = example_calls + 1
    /\ rp_pc' = "example_comparison"
    /\ UNCHANGED <<overlap_vars, gm_exists, wm_exists, gm_csv, wm_csv, csv_reads,
                   gm_data, wm_data, saved, rp_error>>

\* except Exception: run_example(output_directory) is called
HandleException ==
    /\ rp_pc = "except"
    /\ rp_error[Len(rp_error)] # "FileNotFoundError"
    /\ example_calls' = example_calls + 1
    /\ rp_pc' = "example_comparison"
    /\ UNCHANGED <<overlap_vars, gm_exists, wm_exists, gm_csv, wm_csv, csv_reads,
                   gm_data, wm_data, saved, rp_error>>

\* run_example: create_sample_data, os.makedirs, the comparison figure
\* 'radar_comparison_example.png'
ExampleComparison ==
    /\ rp_pc = "example_comparison"
    /\ SaveFigure("radar_comparison_example.png",
                  create_sample_data.gm, create_sample_data.wm)
    /\ rp_pc' = "example_gm"
    /\ UNCHANGED <<overlap_vars, gm_exists, wm_exists, gm_csv, wm_csv, csv_reads,
                   gm_data, wm_data, example_calls, rp_error>>

\* run_example: create_comparison_radar_plot raises
ExampleComparisonFail ==
    /\ rp_pc = "example_comparison"
    /\ RaiseInExample("OSError")
    /\ UNCHANGED <<overlap_vars, gm_exists, wm_exists, gm_csv, wm_csv, csv_reads,
                   gm_data, wm_data, saved, example_calls>>

\* run_example: create_individual_plots, 'radar_example_GM.png'
ExampleGm ==
    /\ rp_pc = "example_gm"
    /\ SaveFigure("radar_example_GM.png", create_sample_data.gm, <<>>)
    /\ rp_pc' = "example_wm"
    /\ UNCHANGED <<overlap_vars, gm_exists, wm_exists, gm_csv, wm_csv, csv_reads,
                   gm_data, wm_data, example_calls, rp_error>>

\* run_example: create_individual_plots raises on the GM figure
ExampleGmFail ==
    /\ rp_pc = "example_gm"
    /\ RaiseInExample("OSError")
    /\ UNCHANGED <<overlap_vars, gm_exists, wm_exists, gm_csv, wm_csv, csv_reads,
                   gm_data, wm_data, saved, example_calls>>

\* run_example: create_individual_plots, 'radar_example_WM.png'; the run ends
ExampleWm ==
    /\ rp_pc = "example_wm"
    /\ SaveFigure("radar_example_WM.png", <<>>, create_sample_data.wm)
    /\ rp_pc' = "done"
    /\ UNCHANGED <<overlap_vars, gm_exists, wm_exists, gm_csv, wm_csv, csv_reads,
                   gm_data, wm_data, example_calls, rp_error>>

\* run_example: create_individual_plots raises on the WM figure
ExampleWmFail ==
    /\ rp_pc = "example_wm"
    /\ RaiseInExample("OSError")
    /\ UNCHANGED <<overlap_vars, gm_exists, wm_exists, gm_csv, wm_csv, csv_reads,
                   gm_data, wm_data, saved, example_calls>>

NextRadar ==
    \/ RadarStart
    \/ LoadMissing
    \/ ReadGmCsv
    \/ ReadGmCsvFail
    \/ ReadWmCsv
    \/ ReadWmCsvFail
    \/ ProcessData
    \/ ProcessDataFail
    \/ PlotComparison
    \/ PlotComparisonFail
    \/ PlotGm
    \/ PlotGmFail
    \/ PlotWm
    \/ PlotWmFail
    \/ HandleFileNotFound
    \/ HandleException
    \/ ExampleComparison
    \/ ExampleComparisonFail
    \/ ExampleGm
    \/ ExampleGmFail
    \/ ExampleWm
    \/ ExampleWmFail

SpecRadar == InitRadar /\ [][NextRadar]_vars

\* ------------------------------------------------------------ shared terms
\* the map in nifti_data has just been scored into column nifti_index
JustScored == pc \in {"loop", "done"} /\ nifti_index >= 1

\* main() has enumerated the maps
Enumerated == df_as_array # <<>>

\* the map just loaded and the lesion mask have the same voxel grid
SameShape == nifti_data.shape = pat_data.shape

\* voxels where both the lesion and the map are non-zero (same grid)
OverlapVoxels ==
    {i \in DOMAIN nifti_data.data : pat_data.data[i] # 0 /\ nifti_data.data[i] # 0}

\* the value of 0-based rank k among the map values at the overlap voxels,
\* by counting: fewer than k+1 values are smaller, at least k+1 are not larger
RankValue(k) ==
    CHOOSE v \in {nifti_data.data[i] : i \in OverlapVoxels} :
        /\ Cardinality({i \in OverlapVoxels : nifti_data.data[i] < v}) <= k
        /\ Cardinality({i \in OverlapVoxels : nifti_data.data[i] <= v}) > k

\* ten times the 90th percentile of the map values at the overlap voxels:
\* rank position 0.9 * (n - 1), linear interpolation between the two ranks
ReferencePercentile ==
    LET n  == Cardinality(OverlapVoxels)
        lo == (9 * (n - 1)) \div 10
        r  == (9 * (n - 1)) % 10
    IN  IF r = 0 THEN 10 * RankValue(lo)
        ELSE (10 - r) * RankValue(lo) + r * RankValue(lo + 1)

\* the lesion is loaded and every voxel of it is zero
AllZeroLesion ==
    /\ pat_data # NoVolume
    /\ \A i \in DOMAIN pat_data.data : pat_data.data[i] = 0

\* ten times the non-zero values of the map just loaded
MapRange == {10 * nifti_data.data[i] : i \in {j \in DOMAIN nifti_data.data : nifti_data.data[j] # 0}}

\* the score lies between the smallest and the largest non-zero map value
ScoreInMapRange ==
    \E lo \in MapRange : \E hi \in MapRange :
        /\ lo <= df_as_array[1][nifti_index]
        /\ df_as_array[1][nifti_index] <= hi

\* the part of a path after its last '/', found by position
BaseNameOf(p) ==
    LET cut == SetMax({0} \cup {i \in 1..Len(p) : p[i] = 47})
    IN  Slice(p, cut + 1, Len(p))

\* a before b in ascending lexicographic order
LexBefore(a, b) ==
    \E k \in 1..(Len(a) + 1) :
        /\ \A m \in 1..(k - 1) : m <= Len(b) /\ a[m] = b[m]
        /\ IF k = Len(a) + 1 THEN Len(b) >= k
           ELSE k <= Len(b) /\ a[k] < b[k]

\* s with one trailing SUFFIX taken off, s itself when it does not end so
SuffixRemoved(s) ==
    IF EndsWith(s, SUFFIX) THEN Slice(s, 1, Len(s) - Len(SUFFIX)) ELSE s

\* ------------------------------------------------------------------ claims
\* C1: for a map of the lesion's shape whose product with the binarized
\* lesion mask has a non-zero value, the stored score is the 90th percentile
\* of exactly those non-zero values, with linear interpolation at rank
\* position 0.9 * (n - 1) of the ascending sample.
C1_ScoreIsPercentile ==
    (JustScored /\ SameShape /\ OverlapVoxels # {}) =>
        df_as_array[1][nifti_index] = ReferencePercentile

\* C1 witness: two or more overlap voxels and a score strictly between ranks
C1_Witness ==
    /\ JustScored /\ SameShape
    /\ Cardinality(OverlapVoxels) >= 2
    /\ df_as_array[1][nifti_index] % 10 # 0

\* C2: a map that shares no non-zero voxel with the lesion scores exactly 0;
\* with an all-zero lesion every column of the score row, and of the written
\* output row, is 0 whatever the maps contain.
C2_NoOverlapScoresZero ==
    /\ (JustScored /\ SameShape /\ OverlapVoxels = {}) =>
           df_as_array[1][nifti_index] = 0
    /\ (AllZeroLesion /\ Enumerated) =>
           /\ \A j \in DOMAIN df_as_array[1] : df_as_array[1][j] = 0
           /\ output # <<>> =>
                  \A j \in DOMAIN output[1].rows[1] : output[1].rows[1][j] = 0

\* C2 witness: the table is written for an all-zero lesion and a map that
\* has non-zero voxels
C2_Witness ==
    /\ pc = "done" /\ AllZeroLesion /\ Len(maps) >= 1
    /\ \E i \in DOMAIN nifti_data.data : nifti_data.data[i] # 0
    /\ output # <<>>

\* C3 as stated: every score, also that of a map the lesion does not
\* overlap, lies between the smallest and largest non-zero value of its map.
C3_ScoreAlwaysInMapRange == JustScored => ScoreInMapRange

\* C3 amended: when the product of map and mask has a non-zero value the
\* score lies between the smallest and largest non-zero value of the map;
\* without overlap the score is 0.
C3_ScoreInMapRangeWhenOverlap ==
    JustScored =>
        IF SelectNonZero(inter.data) # <<>> THEN ScoreInMapRange
        ELSE df_as_array[1][nifti_index] = 0

\* C3 witness: an overlapping map whose score is strictly inside its range
C3_Witness ==
    /\ JustScored
    /\ SelectNonZero(inter.data) # <<>>
    /\ \E lo \in MapRange : lo < df_as_array[1][nifti_index]
    /\ \E hi \in MapRange : df_as_array[1][nifti_index] < hi

\* C4 as stated: no score is ever stored for a map whose voxel-grid shape
\* differs from the lesion's (the run fails instead, and writes nothing).
C4_ShapeMismatchFails == JustScored => SameShape

\* C5: with a lesion path that does not exist the run fails with
\* FileNotFoundError before main() is entered: no map is enumerated or
\* loaded and no output is written.
C5_MissingLesionHalts ==
    ~lesion_exists =>
        /\ pc \in {"start", "failed"}
        /\ pc = "failed" => error = <<"FileNotFoundError">>
        /\ maps = <<>> /\ map_names = <<>> /\ df_as_array = <<>>
        /\ pat_data = NoVolume /\ nifti_data = NoVolume /\ nifti_map = <<>>
        /\ output = <<>> /\ n_writes = 0

\* C5 witness: the run has failed on a missing lesion while the map
\* directory holds maps
C5_Witness ==
    /\ ~lesion_exists /\ pc = "failed"
    /\ GlobSet(listing) # {}

\* the state part of C6
WriteDiscipline ==
    /\ n_writes <= 1
    /\ (n_writes = 1) = (pc = "done")
    /\ (output # <<>>) = (n_writes = 1)
    /\ n_writes = 1 =>
           /\ pat_data # NoVolume
           /\ nifti_index = Len(maps)
           /\ error = <<>>
    /\ error # <<>> => (pc = "failed" /\ n_writes = 0 /\ output = <<>>)

\* C6: the output is written at most once and only after the lesion and
\* every map were loaded and scored; a failed load ends the run with nothing
\* written and nothing after it (no retry); a completed run has written
\* exactly one output.
C6_SingleWriteNoPartialOutput ==
    /\ []WriteDiscipline
    /\ [][pc # "failed" /\ n_writes = 0 /\ error = <<>>]_vars

\* C6 witness: a run over two maps has completed with its one write
C6_Witness ==
    /\ pc = "done" /\ n_writes = 1 /\ Len(maps) = 2
    /\ output # <<>>

\* C7: one data row, one column per '*gz' file of the directory, columns in
\* ascending lexicographic order of the file names whatever the enumeration
\* order, and the score in column i is the score of the i-th file.
C7_ColumnsFollowSortedFiles ==
    /\ Enumerated =>
           /\ {maps[i] : i \in DOMAIN maps} = GlobSet(listing)
           /\ Len(maps) = Cardinality(GlobSet(listing))
           /\ \A i \in DOMAIN maps : \A j \in DOMAIN maps :
                  i < j => LexBefore(BaseNameOf(maps[i]), BaseNameOf(maps[j]))
           /\ Len(map_names) = Len(maps)
           /\ Len(df_as_array) = 1
           /\ Len(df_as_array[1]) = Len(maps)
    /\ pc = "score" => nifti_map = maps[nifti_index + 1]
    /\ JustScored =>
           /\ nifti_map = maps[nifti_index]
           /\ df_as_array[1][nifti_index] = OverlapScore(nifti_data, pat_data)
    /\ output # <<>> =>
           /\ output[1].columns = map_names
           /\ output[1].rows = df_as_array
           /\ Len(output[1].rows) = 1
           /\ Len(output[1].rows[1]) = Len(output[1].columns)

\* C7 witness: a table of two columns with different scores is written
C7_Witness ==
    /\ output # <<>>
    /\ Len(output[1].columns) = 2
    /\ output[1].rows[1][1] # output[1].rows[1][2]

\* what C8 asks of the binarization step
BinarizeStep ==
    pc = "binarize" =>
        /\ pat_data'.shape = pat_data.shape
        /\ DOMAIN pat_data'.data = DOMAIN pat_data.data
        /\ \A i \in DOMAIN pat_data.data :
               pat_data'.data[i] = (IF pat_data.data[i] # 0 THEN 1 ELSE 0)
        /\ Binarize(pat_data') = pat_data'

\* C8: binarization sets exactly the non-zero voxels to 1 and leaves the
\* zero voxels 0, and applying it again changes nothing.
C8_BinarizeIdempotent == [][BinarizeStep]_vars

\* C8 witness: a binarized lesion with both zero and non-zero voxels
C8_Witness ==
    /\ pc = "loop" /\ nifti_index = 0
    /\ \E i \in DOMAIN pat_data.data : pat_data.data[i] = 1
    /\ \E i \in DOMAIN pat_data.data : pat_data.data[i] = 0

\* C9 as stated: every column name is the base name of its file with the
\* trailing suffix removed; it has no '/' and does not end with the suffix.
C9_NameIsBaseNameWithoutSuffix ==
    Enumerated =>
        \A i \in DOMAIN maps :
            /\ map_names[i] = SuffixRemoved(BaseNameOf(maps[i]))
            /\ \A k \in DOMAIN map_names[i] : map_names[i][k] # 47
            /\ ~EndsWith(map_names[i], SUFFIX)

\* C9 amended: every column name is the base name of its file cut at the
\* first occurrence of the suffix (the whole base name when the suffix does
\* not occur); for a base name holding the suffix once, at its end, this is
\* the base name with the suffix removed; the name has no '/' and does not
\* end with the suffix.
C9_NameIsBaseNameBeforeSuffix ==
    Enumerated =>
        \A i \in DOMAIN maps :
            LET b  == BaseNameOf(maps[i])
                nm == map_names[i]
            IN  /\ Len(nm) <= Len(b)
                /\ nm = Slice(b, 1, Len(nm))
                /\ \A k \in 1..Len(nm) : ~OccursAt(b, SUFFIX, k)
                /\ nm # b => OccursAt(b, SUFFIX, Len(nm) + 1)
                /\ Occurrences(b, SUFFIX) = {Len(b) - Len(SUFFIX) + 1} =>
                       nm \o SUFFIX = b
                /\ \A k \in DOMAIN nm : nm[k] # 47
                /\ ~EndsWith(nm, SUFFIX)

\* C9 witness: one file ends with the suffix and one holds it before '.gz'
C9_Witness ==
    /\ Enumerated
    /\ \E i \in DOMAIN maps : EndsWith(maps[i], SUFFIX) /\ map_names[i] = <<65>>
    /\ \E i \in DOMAIN maps :
           /\ ~EndsWith(maps[i], SUFFIX)
           /\ Occurrences(maps[i], SUFFIX) # {}

\* what C10 asks of one step taken inside the loop
LoopStepFrame ==
    pc \in {"loop", "score"} =>
        /\ pat_data' = pat_data
        /\ \A j \in DOMAIN df_as_array[1] :
               j # nifti_index + 1 => df_as_array'[1][j] = df_as_array[1][j]
        /\ (pc = "score" /\ pc' = "loop") =>
               (df_as_array'[1][nifti_index + 1] =
                   OverlapScore(nifti_data, Binarize(pat_data)))

\* C10: once binarized the mask never changes; scoring a map changes only
\* that map's column, and the value stored is determined by that map and the
\* mask alone.
C10_MaskAndOtherScoresUntouched == [][LoopStepFrame]_vars

\* C10 witness: the second map is scored and the first, non-zero, score is
\* still in its column beside a different second score
C10_Witness ==
    /\ pc = "loop" /\ nifti_index = 2
    /\ df_as_array[1][1] # 0
    /\ df_as_array[1][2] # df_as_array[1][1]

\* a CSV path of the radar-plot run does not exist
CsvMissing == (gm_exists /\ wm_exists) = FALSE

\* names of the figures saved so far
SavedNames == {saved[i].name : i \in DOMAIN saved}

\* the figures the real-data path writes
RealFigureNames == {"radar_comparison.png", "radar_plots_GM.png", "radar_plots_WM.png"}

\* what run_example is to leave behind: the three example figures, drawn
\* from the built-in sample data
ExampleFigures ==
    << [name |-> "radar_comparison_example.png",
        gm |-> DictOf(gm_sample_items), wm |-> DictOf(wm_sample_items)],
       [name |-> "radar_example_GM.png", gm |-> DictOf(gm_sample_items), wm |-> <<>>],
       [name |-> "radar_example_WM.png", gm |-> <<>>, wm |-> DictOf(wm_sample_items)] >>

\* C11: with a missing gray- or white-matter CSV path load_and_process_data
\* raises FileNotFoundError before either file is read, no real-data figure is
\* written, and run_example then writes the example figures from the sample
\* data; any exception raised while loading or plotting real data is followed
\* by exactly one run_example call, and without one run_example is not called.
C11_MissingCsvFallsBackToExample ==
    /\ (CsvMissing /\ rp_pc \notin {"start", "load"}) =>
           /\ rp_error # <<>>
           /\ rp_error[1] = "FileNotFoundError"
           /\ csv_reads = 0
           /\ SavedNames \cap RealFigureNames = {}
           /\ gm_data = <<>> /\ wm_data = <<>>
    /\ (CsvMissing /\ rp_pc = "done") => saved = ExampleFigures
    /\ example_calls <= 1
    /\ rp_error = <<>> => example_calls = 0
    /\ (rp_error # <<>> /\ rp_pc # "except") => example_calls = 1
    /\ rp_pc = "except" => (Len(rp_error) = 1 /\ example_calls = 0)
    /\ (rp_pc = "done" /\ rp_error # <<>>) =>
           /\ Len(saved) >= 3
           /\ SubSeq(saved, Len(saved) - 2, Len(saved)) = ExampleFigures

\* C11 witness: the run ended on the example figures after a missing CSV path
C11_Witness ==
    /\ CsvMissing /\ rp_pc = "done"
    /\ example_calls = 1
    /\ Len(saved) = 3

====
